---------------------------- MODULE Spec2Model ----------------------------
(***************************************************************************)
(* A model of printing_cost/compute_cost.py: the single routine            *)
(* image_analysis, which loads an image, computes its grey-level           *)
(* statistics, derives the page coverage and the cost of one print, prints *)
(* a report and a recommendation, and draws the plots.                     *)
(*                                                                         *)
(* Numbers.  The routine works on Python floats.  They are modelled as     *)
(* exact rationals [n, d] in lowest terms (d > 0), so the model abstracts  *)
(* from binary64 rounding (relative error below 1e-15); a result stated    *)
(* here as an equality of costs is an equality in exact arithmetic.        *)
(* The arguments are the built-in int and float the docstring names:       *)
(* Python's "/" on them raises ZeroDivisionError for a zero divisor, which *)
(* the model keeps.  A field printed with ".3f" is modelled by the integer *)
(* number of thousandths it shows.                                         *)
(***************************************************************************)
EXTENDS Integers, Sequences, FiniteSets

\* ------------------------------------------------------------------ bounds

\* Largest number of samples of an enumerated image (the example image of the
\* docstring, ExampleImage, is added to the enumerated ones).
MaxSamples == 2

\* ----------------------------------------------------- program constants

\* Largest value of an unsigned byte sample; the divisor of the coverage.
MaxGray == 255
\* The factor that turns the coverage into a percentage.
Percent == 100
\* The coverage [%] at which the declared number of pages of a toner holds.
NominalCover == 5
\* The number of thousandths in a unit: the ".3f" fields of the report.
Milli == 1000
\* The figures the routine opens: figure 1, figure 2 and the subplots figure.
NFigures == 3

\* ------------------------------------------------------ exact arithmetic

Abs(x) == IF x < 0 THEN -x ELSE x

RECURSIVE GCD(_, _)
GCD(a, b) == IF b = 0 THEN a ELSE GCD(b, a % b)

\* The rational n/d (d > 0) in lowest terms.
Rat(n, d) == LET g == GCD(Abs(n), d) IN [n |-> n \div g, d |-> d \div g]

Zero == Rat(0, 1)
One == Rat(1, 1)
FromInt(i) == Rat(i, 1)

RAdd(a, b) == Rat(a.n * b.d + b.n * a.d, a.d * b.d)
RSub(a, b) == Rat(a.n * b.d - b.n * a.d, a.d * b.d)
RMul(a, b) == Rat(a.n * b.n, a.d * b.d)
\* a / b for b # 0.
RDiv(a, b) == IF b.n < 0 THEN Rat(-(a.n * b.d), a.d * (-b.n))
                         ELSE Rat(a.n * b.d, a.d * b.n)
\* Rationals are kept in lowest terms, so a = b is the equality of the numbers.
RLt(a, b) == a.n * b.d < b.n * a.d
RLe(a, b) == a.n * b.d <= b.n * a.d
RAbs(a) == [n |-> Abs(a.n), d |-> a.d]

\* The integer square root, by bisection: lo * lo <= v < hi * hi.
RECURSIVE SqrtBis(_, _, _)
SqrtBis(v, lo, hi) ==
    IF hi - lo <= 1 THEN lo
    ELSE LET mid == (lo + hi) \div 2
         IN IF mid * mid <= v THEN SqrtBis(v, mid, hi) ELSE SqrtBis(v, lo, mid)

ISqrt(v) == IF v >= 46340 * 46340 THEN 46340 ELSE SqrtBis(v, 0, 46340)

\* Fmt3 with the fault of cutting the digits after the third instead of
\* rounding: C7 must tell the two apart.
Fmt3Truncate(x) == (x.n * Milli) \div x.d

\* format(x, ".3f"): the thousandths shown, rounded half to even.
Fmt3(x) ==
    LET m == x.n * Milli
        q == m \div x.d
        r == m - q * x.d
    IN IF 2 * r > x.d \/ (2 * r = x.d /\ q % 2 = 1) THEN q + 1 ELSE q


\* ------------------------------------------------------------ the inputs

\* The grey levels the enumerated images are made of.
Levels == {0, 128, 255}

RECURSIVE Product(_)
Product(s) == IF s = <<>> THEN 1 ELSE s[1] * Product(Tail(s))

\* The shapes of the enumerated images: (rows, columns) of a grey-level image
\* and (rows, columns, channels) of a multi-channel one.
Shapes ==
    {s \in [1..2 -> 1..MaxSamples] : Product(s) <= MaxSamples}
    \cup {s \in [1..3 -> 1..MaxSamples] : Product(s) <= MaxSamples}

\* An image of 3 x 11 samples whose mean grey level, 3787/33 = 114.7576, is the
\* mean 114.758 of the docstring's example.
ExampleImage ==
    [shape |-> <<3, 11>>,
     data |-> [i \in 1..33 |-> IF i <= 14 THEN 255 ELSE IF i = 15 THEN 217 ELSE 0]]

\* The arrays img_as_ubyte can return: unsigned bytes, whatever the file held.
Images ==
    UNION {{[shape |-> s, data |-> d] : d \in [1..Product(s) -> Levels]} : s \in Shapes}
    \cup {ExampleImage}

\* The value of img before the image is read.
NoImage == [shape |-> <<>>, data |-> <<>>]

\* What file_path may name: an image, or nothing that can be read as one.
Files == [readable : {TRUE}, image : Images] \cup {[readable |-> FALSE, image |-> NoImage]}

TonerCosts == {Zero, FromInt(15)}
TonerNPages == {0, 1000}
StackPaperCosts == {Zero, FromInt(5)}
StackNPages == {0, 500}
CopyshopCosts == {Zero, Rat(1, 100), Rat(35, 1000), One}

\* -------------------------------------------------------- the statistics

RECURSIVE SumSeq(_)
SumSeq(s) == IF s = <<>> THEN 0 ELSE s[1] + SumSeq(Tail(s))

RECURSIVE MinSeq(_)
MinSeq(s) == IF Len(s) = 1 THEN s[1]
             ELSE LET m == MinSeq(Tail(s)) IN IF s[1] < m THEN s[1] ELSE m

RECURSIVE MaxSeq(_)
MaxSeq(s) == IF Len(s) = 1 THEN s[1]
             ELSE LET m == MaxSeq(Tail(s)) IN IF s[1] > m THEN s[1] ELSE m

\* img.ravel(): every sample of the array, whatever its shape.
Ravel(im) == im.data

\* img.shape[0] * img.shape[1]
Counts(im) == im.shape[1] * im.shape[2]

\* Mean with the fault of dividing by the pixel count shape[0] * shape[1] instead
\* of the number of samples: C8 must tell the two apart.
MeanOverCounts(im) == Rat(SumSeq(Ravel(im)), Counts(im))

\* np.mean(img.ravel())
Mean(im) == Rat(SumSeq(Ravel(im)), Len(Ravel(im)))

\* The sum over the samples x of (N * x - S) ^ 2, N samples of sum S: N ^ 2 times
\* the sum of the squared deviations from the mean.
RECURSIVE SumSqDev(_, _, _)
SumSqDev(s, N, S) ==
    IF s = <<>> THEN 0
    ELSE (N * s[1] - S) * (N * s[1] - S) + SumSqDev(Tail(s), N, S)

\* np.std(img.ravel()): the square root of the mean squared deviation, here
\* truncated to a multiple of 1/N.
Std(im) ==
    LET N == Len(Ravel(im))
        S == SumSeq(Ravel(im))
    IN Rat(ISqrt(SumSqDev(Ravel(im), N, S) \div N), N)

\* std / np.sqrt(len(img.ravel())), truncated to a multiple of 1/N.
MeanError(im) ==
    LET N == Len(Ravel(im))
        S == SumSeq(Ravel(im))
    IN Rat(ISqrt((SumSqDev(Ravel(im), N, S) \div N) \div N), N)

\* -------------------------------------------------------------- the cost

\* PageCover with the fault of dividing by 256, the number of grey levels: C5
\* must tell the two apart.
PageCoverOver256(m) ==
    RMul(RSub(One, RDiv(m, FromInt(MaxGray + 1))), FromInt(Percent))

\* PageCover with the fault of leaving out the complement, which makes it the
\* lightness of the page: C6 must tell the two apart.
PageCoverOfLightness(m) == RMul(RDiv(m, FromInt(MaxGray)), FromInt(Percent))

\* (1 - mean/255) * 100
PageCover(m) == RMul(RSub(One, RDiv(m, FromInt(MaxGray))), FromInt(Percent))

\* stack_paper_cost / stack_npage, for stack_npage # 0
SinglePageCost(spc, sn) == RDiv(spc, FromInt(sn))

\* SingleInkCost with the fault of leaving out the nominal coverage of 5 %: C4
\* must tell the two apart.
SingleInkCostNoNominal(tc, tn, cover) == RMul(RDiv(tc, FromInt(tn)), cover)

\* toner_cost / toner_npage * page_cover / 5.0, for toner_npage # 0
SingleInkCost(tc, tn, cover) ==
    RDiv(RMul(RDiv(tc, FromInt(tn)), cover), FromInt(NominalCover))

\* single_page_cost + single_ink_cost
TotalCost(page, ink) == RAdd(page, ink)

\* ------------------------------------------------------------- the state

VARIABLES
    file,               \* what file_path names
    toner_cost, toner_npage, stack_paper_cost, stack_npage,
    copyshop_cost, verbose,                         \* the other arguments
    img, number_of_pixel, counts, mean, std, mean_error, min_value, max_value,
    page_cover, single_page_cost, single_ink_cost, total_cost,   \* the locals
    stdout,             \* the lines printed so far
    figures,            \* the figures drawn
    pc,                 \* the statement the call is at
    exc                 \* the exception the call ended with, or "none"

args == <<file, toner_cost, toner_npage, stack_paper_cost, stack_npage,
          copyshop_cost, verbose>>
stats == <<number_of_pixel, counts, mean, std, mean_error, min_value, max_value>>
costs == <<page_cover, single_page_cost, single_ink_cost, total_cost>>
vars == <<args, img, stats, costs, stdout, figures, pc, exc>>

\* A printed line: its text and the numbers of its fields.
Line(t, v) == [text |-> t, val |-> v]

Init ==
    /\ file \in Files
    /\ toner_cost \in TonerCosts
    /\ toner_npage \in TonerNPages
    /\ stack_paper_cost \in StackPaperCosts
    /\ stack_npage \in StackNPages
    /\ copyshop_cost \in CopyshopCosts
    /\ verbose \in BOOLEAN
    /\ img = NoImage
    /\ number_of_pixel = 0 /\ counts = 0
    /\ mean = Zero /\ std = Zero /\ mean_error = Zero
    /\ min_value = 0 /\ max_value = 0
    /\ page_cover = Zero /\ single_page_cost = Zero
    /\ single_ink_cost = Zero /\ total_cost = Zero
    /\ stdout = <<>>
    /\ figures = 0
    /\ pc = "imread"
    /\ exc = "none"

\* An exception leaves the routine: nothing else of the call runs.
Raise(e) == pc' = "raised" /\ exc' = e

\* img = plt.imread(file_path); img = img_as_ubyte(img)
ReadImage ==
    /\ pc = "imread"
    /\ IF file.readable
       THEN img' = file.image /\ pc' = "stats" /\ exc' = exc
       ELSE img' = img /\ Raise("OSError")
    /\ UNCHANGED <<args, stats, costs, stdout, figures>>

\* number_of_pixel, counts, mean, std, mean_error, min_value, max_value
Statistics ==
    /\ pc = "stats"
    /\ number_of_pixel' = Counts(img)
    /\ counts' = Counts(img)
    /\ mean' = Mean(img)
    /\ std' = Std(img)
    /\ mean_error' = MeanError(img)
    /\ min_value' = MinSeq(Ravel(img))
    /\ max_value' = MaxSeq(Ravel(img))
    /\ pc' = "page_cover"
    /\ UNCHANGED <<args, img, costs, stdout, figures, exc>>

\* page_cover = (1 - mean/255) * 100
Cover ==
    /\ pc = "page_cover"
    /\ page_cover' = PageCover(mean)
    /\ pc' = "single_page_cost"
    /\ UNCHANGED <<args, img, stats, single_page_cost, single_ink_cost, total_cost,
                   stdout, figures, exc>>

\* PaperCost with the fault of taking the cost of a page of an empty stack to be
\* 0 and going on: C9 must tell the two apart.
PaperCostZeroForEmptyStack ==
    /\ pc = "single_page_cost"
    /\ single_page_cost' = IF stack_npage = 0 THEN Zero
                           ELSE RDiv(stack_paper_cost, FromInt(stack_npage))
    /\ pc' = "single_ink_cost"
    /\ UNCHANGED <<args, img, stats, page_cover, single_ink_cost, total_cost,
                   stdout, figures, exc>>

\* single_page_cost = stack_paper_cost / stack_npage
PaperCost ==
    /\ pc = "single_page_cost"
    /\ IF stack_npage = 0
       THEN single_page_cost' = single_page_cost /\ Raise("ZeroDivisionError")
       ELSE /\ single_page_cost' = SinglePageCost(stack_paper_cost, stack_npage)
            /\ pc' = "single_ink_cost" /\ exc' = exc
    /\ UNCHANGED <<args, img, stats, page_cover, single_ink_cost, total_cost,
                   stdout, figures>>

\* single_ink_cost = toner_cost / toner_npage * page_cover/5.0
InkCost ==
    /\ pc = "single_ink_cost"
    /\ IF toner_npage = 0
       THEN single_ink_cost' = single_ink_cost /\ Raise("ZeroDivisionError")
       ELSE /\ single_ink_cost' = SingleInkCost(toner_cost, toner_npage, page_cover)
            /\ pc' = "total_cost" /\ exc' = exc
    /\ UNCHANGED <<args, img, stats, page_cover, single_page_cost, total_cost,
                   stdout, figures>>

\* total_cost = single_page_cost + single_ink_cost
Total ==
    /\ pc = "total_cost"
    /\ total_cost' = TotalCost(single_page_cost, single_ink_cost)
    /\ pc' = "report"
    /\ UNCHANGED <<args, img, stats, page_cover, single_page_cost, single_ink_cost,
                   stdout, figures, exc>>

Rule == Line("-------------------------------------------", <<>>)

\* The lines of the "if verbose:" block.
ReportLines ==
    << Rule,
       Line("# Image Information:", <<>>),
       Line("Image shape", img.shape),
       Line("Number of pixel", <<number_of_pixel>>),
       Rule,
       Line("# Histogram Information", <<>>),
       Line("Counts", <<counts>>),
       Line("Mean", <<Fmt3(mean)>>),
       Line("Standard Deviation", <<Fmt3(std)>>),
       Line("Min", <<Fmt3(FromInt(min_value))>>),
       Line("Max", <<Fmt3(FromInt(max_value))>>),
       Line("-------------------------------------", <<>>),
       Line("# Print Information", <<>>),
       Line("Gray cover of the image", <<Fmt3(page_cover)>>),
       Rule,
       Line("# Cost Information", <<>>),
       Line("Cost of a single page (paper)", <<Fmt3(single_page_cost)>>),
       Line("Ink cost for one print", <<Fmt3(single_ink_cost)>>),
       Line("Total cost for one print", <<Fmt3(total_cost)>>),
       Rule >>

\* Report with the fault of printing whatever verbose is: C3 must tell the two
\* apart.
ReportUngated ==
    /\ pc = "report"
    /\ stdout' = stdout \o ReportLines
    /\ pc' = "recommend"
    /\ UNCHANGED <<args, img, stats, costs, figures, exc>>

\* if verbose: print(...)
Report ==
    /\ pc = "report"
    /\ stdout' = IF verbose THEN stdout \o ReportLines ELSE stdout
    /\ pc' = "recommend"
    /\ UNCHANGED <<args, img, stats, costs, figures, exc>>

\* The lines of each branch of the recommendation.
HomeLines ==
    << Line("Cheaper to print at home!", <<>>),
       Line("Saving money:",
            LET s == RSub(copyshop_cost, total_cost)
            IN <<Fmt3(copyshop_cost), Fmt3(total_cost), s.n, s.d>>) >>
ShopLines ==
    << Line("Cheaper to print at the shop!", <<>>),
       Line("Saving money:",
            <<Fmt3(total_cost), Fmt3(copyshop_cost),
              Fmt3(RSub(total_cost, copyshop_cost))>>) >>

\* RecommendLines with the fault of the comparison turned round: C2 must tell
\* the two apart.
RecommendLinesReversed ==
    IF RLt(copyshop_cost, total_cost) THEN HomeLines ELSE ShopLines

\* RecommendLines with the fault of "<=" for "<": C10 must tell the two apart.
RecommendLinesTieHome ==
    IF RLe(total_cost, copyshop_cost) THEN HomeLines ELSE ShopLines

\* The two lines of the branch taken by "if total_cost < copyshop_cost:".  The
\* saving of the home branch is printed unformatted (numerator, denominator),
\* that of the shop branch with ".3f".
RecommendLines ==
    IF RLt(total_cost, copyshop_cost) THEN HomeLines ELSE ShopLines

\* if total_cost < copyshop_cost: ... else: ...
Recommend ==
    /\ pc = "recommend"
    /\ stdout' = stdout \o RecommendLines
    /\ pc' = "plot"
    /\ UNCHANGED <<args, img, stats, costs, figures, exc>>

\* The image and the histogram are drawn and shown; the routine returns None.
Plot ==
    /\ pc = "plot"
    /\ figures' = NFigures
    /\ pc' = "done"
    /\ UNCHANGED <<args, img, stats, costs, stdout, exc>>

Next ==
    \/ ReadImage
    \/ Statistics
    \/ Cover
    \/ PaperCost
    \/ InkCost
    \/ Total
    \/ Report
    \/ Recommend
    \/ Plot

Spec == Init /\ [][Next]_vars

\* ------------------------------------------------- reading the state

\* The call has ended: it returned, or an exception left it.
Terminated == pc \in {"done", "raised"}
\* The statistics have been computed.
StatsDone == pc \in {"page_cover", "single_page_cost", "single_ink_cost",
                     "total_cost", "report", "recommend", "plot", "done"}
\* page_cover has been computed.
CoverDone == StatsDone /\ pc # "page_cover"
\* single_ink_cost has been computed.
InkDone == pc \in {"total_cost", "report", "recommend", "plot", "done"}
\* total_cost has been computed.
TotalDone == InkDone /\ pc # "total_cost"
\* The branch on total_cost < copyshop_cost has been taken.
Recommended == pc \in {"plot", "done"}

Printed(t) == \E i \in 1..Len(stdout) : stdout[i].text = t
Field(t) == stdout[CHOOSE i \in 1..Len(stdout) : stdout[i].text = t].val

HomeText == "Cheaper to print at home!"
ShopText == "Cheaper to print at the shop!"
VerboseSections == {"# Image Information:", "# Histogram Information",
                    "# Print Information", "# Cost Information"}
RecommendationPrinted == Printed(HomeText) \/ Printed(ShopText)

Uniform(im, level) == \A i \in 1..Len(im.data) : im.data[i] = level

\* ------------------------------------------------------------------- C1

\* C1: a call with toner_npage = 0 or stack_npage = 0 on a readable image never
\* returns (no report, no cost that is not a number) and ends in the outcome
\* ConfigurationError.
C1_ZeroDenominatorIsConfigurationError ==
    (file.readable /\ (toner_npage = 0 \/ stack_npage = 0))
        => /\ pc # "done"
           /\ stdout = <<>>
           /\ (pc = "raised" => exc = "ConfigurationError")

\* ------------------------------------------------------------------- C2

\* C2: once the branch is taken, the line printed names the option of lower
\* cost (home when total_cost < copyshop_cost, shop when copyshop_cost <
\* total_cost), and the saving it prints is |total_cost - copyshop_cost|, not
\* negative: in full on the home line, to three decimals on the shop line.
C2_CheaperOptionAndSaving ==
    Recommended =>
        LET diff == RAbs(RSub(total_cost, copyshop_cost))
            sav == Field("Saving money:")
        IN /\ RLt(total_cost, copyshop_cost)
                => /\ Printed(HomeText) /\ ~Printed(ShopText)
                   /\ Len(sav) = 4
                   /\ [n |-> sav[3], d |-> sav[4]] = diff
                   /\ sav[3] >= 0 /\ sav[4] > 0
           /\ RLt(copyshop_cost, total_cost)
                => /\ Printed(ShopText) /\ ~Printed(HomeText)
                   /\ Len(sav) = 3
                   /\ sav[3] = Fmt3(diff)
                   /\ sav[3] >= 0

C2_Witness ==
    /\ pc = "done"
    /\ RLt(total_cost, copyshop_cost)
    /\ RLt(Zero, total_cost)
    /\ Printed(HomeText)
    /\ Field("Saving money:")[3] > 0

\* ------------------------------------------------------------------- C3

\* C3 as stated: once the report and the branch are past, verbose = TRUE has
\* written all five sections and verbose = FALSE none of the five.
C3_VerboseGatesAllFive ==
    Recommended =>
        IF verbose
        THEN (\A t \in VerboseSections : Printed(t)) /\ RecommendationPrinted
        ELSE (\A t \in VerboseSections : ~Printed(t)) /\ ~RecommendationPrinted

\* C3 amended: verbose gates the four sections image info, histogram stats,
\* print coverage and cost breakdown (all four with verbose = TRUE, none with
\* verbose = FALSE); the recommendation is written whatever verbose is.
C3_VerboseGatesFourSections ==
    Recommended =>
        /\ verbose => \A t \in VerboseSections : Printed(t)
        /\ ~verbose => \A t \in VerboseSections : ~Printed(t)
        /\ RecommendationPrinted

C3_Witness ==
    /\ pc = "done"
    /\ ~verbose
    /\ Len(stdout) = 2
    /\ RecommendationPrinted
    /\ \A t \in VerboseSections : ~Printed(t)

\* ------------------------------------------------------------------- C4

\* C4: for an image whose every sample is 0 and toner_npage > 0, page_cover is
\* exactly 100 and single_ink_cost is toner_cost / toner_npage * 20.
C4_AllBlack ==
    (InkDone /\ Uniform(img, 0) /\ toner_npage > 0)
        => /\ page_cover = FromInt(100)
           /\ single_ink_cost = RMul(RDiv(toner_cost, FromInt(toner_npage)), FromInt(20))

C4_Witness ==
    /\ pc = "done"
    /\ Uniform(img, 0)
    /\ Len(img.data) > 1
    /\ toner_cost = FromInt(15) /\ toner_npage = 1000
    /\ single_ink_cost = Rat(3, 10)

\* ------------------------------------------------------------------- C5

\* C5: for an image whose every sample is 255 and toner_npage > 0, page_cover is
\* exactly 0, single_ink_cost is 0 and total_cost is single_page_cost.
C5_AllWhite ==
    (TotalDone /\ Uniform(img, MaxGray) /\ toner_npage > 0)
        => /\ page_cover = Zero
           /\ single_ink_cost = Zero
           /\ total_cost = single_page_cost

C5_Witness ==
    /\ pc = "done"
    /\ Uniform(img, MaxGray)
    /\ Len(img.data) > 1
    /\ toner_cost = FromInt(15) /\ toner_npage = 1000
    /\ total_cost = Rat(1, 100)

\* ------------------------------------------------------------------- C6

\* The total cost of the call's arguments for another image.
TotalCostOf(im) ==
    TotalCost(single_page_cost,
              SingleInkCost(toner_cost, toner_npage, PageCover(Mean(im))))

\* C6: with toner_cost >= 0, toner_npage > 0 and the paper arguments fixed, the
\* total cost does not decrease with the coverage: for the image of the call and
\* any other image, coverage c1 <= c2 is the same as mean1 >= mean2, and then
\* total_cost(c1) <= total_cost(c2).
C6_MonotoneInCoverage ==
    (pc = "done" /\ RLe(Zero, toner_cost) /\ toner_npage > 0) =>
        \A im \in Images :
            LET m2 == Mean(im)
                c2 == PageCover(m2)
            IN /\ RLe(page_cover, c2) <=> RLe(m2, mean)
               /\ RLe(page_cover, c2) => RLe(total_cost, TotalCostOf(im))
               /\ RLe(c2, page_cover) => RLe(TotalCostOf(im), total_cost)

C6_Witness ==
    /\ pc = "done"
    /\ toner_cost = FromInt(15) /\ toner_npage = 1000
    /\ \E im \in Images :
           /\ RLt(page_cover, PageCover(Mean(im)))
           /\ RLt(total_cost, TotalCostOf(im))

\* ------------------------------------------------------------------- C7

\* The arguments of the docstring's example and of the script's entry point.
ExampleCall ==
    /\ file.readable /\ file.image = ExampleImage
    /\ toner_cost = FromInt(15) /\ toner_npage = 1000
    /\ stack_paper_cost = FromInt(5) /\ stack_npage = 500
    /\ copyshop_cost = Rat(35, 1000)
    /\ verbose

\* C7: the example call on an image of mean 114.758 prints, to three decimals,
\* coverage 54.997, paper cost 0.010, ink cost 0.165, total 0.175, the shop
\* recommendation and the saving 0.175 - 0.035 = 0.140.
C7_DocstringExample ==
    (ExampleCall /\ pc = "done") =>
        /\ Field("Mean") = <<114758>>
        /\ Field("Gray cover of the image") = <<54997>>
        /\ Field("Cost of a single page (paper)") = <<10>>
        /\ Field("Ink cost for one print") = <<165>>
        /\ Field("Total cost for one print") = <<175>>
        /\ Printed(ShopText) /\ ~Printed(HomeText)
        /\ Field("Saving money:") = <<175, 35, 140>>

C7_Witness ==
    /\ ExampleCall
    /\ pc = "done"
    /\ Field("Counts") = <<33>>
    /\ Field("Total cost for one print") = <<175>>

\* ------------------------------------------------------------------- C8

\* C8: for every image read, std >= 0 and min_value <= mean <= max_value, mean
\* and std being those of all the samples of the array.
C8_StatisticsBounds ==
    StatsDone =>
        /\ RLe(Zero, std)
        /\ RLe(FromInt(min_value), mean)
        /\ RLe(mean, FromInt(max_value))
        /\ \A i \in 1..Len(img.data) : min_value <= img.data[i] /\ img.data[i] <= max_value
        /\ min_value >= 0 /\ max_value <= MaxGray

C8_Witness ==
    /\ pc = "done"
    /\ Len(img.shape) = 3
    /\ Len(img.data) > counts
    /\ RLt(FromInt(min_value), mean)
    /\ RLt(mean, FromInt(max_value))
    /\ RLt(Zero, std)

\* ------------------------------------------------------------------- C9

\* The order of the statements of one call.
StepOrder ==
    { <<"imread", "stats">>, <<"stats", "page_cover">>,
      <<"page_cover", "single_page_cost">>, <<"single_page_cost", "single_ink_cost">>,
      <<"single_ink_cost", "total_cost">>, <<"total_cost", "report">>,
      <<"report", "recommend">>, <<"recommend", "plot">>, <<"plot", "done">> }

\* A step follows the order, or is an exception raised while loading or while
\* computing the cost.
InOrder ==
    \/ <<pc, pc'>> \in StepOrder
    \/ /\ pc \in {"imread", "single_page_cost", "single_ink_cost"}
       /\ pc' = "raised"

\* A call that cannot load its image or has a zero cost denominator prints
\* nothing, draws nothing and never returns; a call that has ended in an
\* exception has printed nothing.
NoPartialResult ==
    /\ (~file.readable \/ stack_npage = 0 \/ toner_npage = 0)
           => /\ stdout = <<>> /\ figures = 0
              /\ pc \notin {"report", "recommend", "plot", "done"}
    /\ pc = "raised" => exc # "none" /\ stdout = <<>> /\ figures = 0
    /\ (stdout # <<>> \/ figures # 0) => TotalDone /\ exc = "none"

\* C9: the steps of a call run in the order load, statistics, cost, report, and
\* a failure is fatal with no partial result: no report line and no
\* recommendation line has been printed when the call ends in an exception.
C9_SequentialNoPartial == [][InOrder]_vars /\ []NoPartialResult

C9_Witness ==
    /\ pc = "raised"
    /\ exc = "ZeroDivisionError"
    /\ verbose
    /\ img # NoImage
    /\ stdout = <<>>

\* ------------------------------------------------------------------ C10

\* C10: when total_cost equals copyshop_cost the shop line is printed, with a
\* saving of 0; the home line is printed only when total_cost < copyshop_cost.
C10_TieGoesToShop ==
    Recommended =>
        /\ total_cost = copyshop_cost
               => /\ Printed(ShopText) /\ ~Printed(HomeText)
                  /\ Field("Saving money:")[3] = 0
                  /\ Len(Field("Saving money:")) = 3
        /\ Printed(HomeText) => RLt(total_cost, copyshop_cost)

C10_Witness ==
    /\ pc = "done"
    /\ total_cost = copyshop_cost
    /\ total_cost = Rat(1, 100)
    /\ Printed(ShopText)
    /\ Field("Saving money:") = <<10, 10, 0>>

=============================================================================
